---------------------------- MODULE Spec2Model ----------------------------
(***************************************************************************)
(* Huffman compressor of src/src/encoding.cpp as a state machine.          *)
(*                                                                         *)
(* Bytes are their character codes (integers); a C++ string is a sequence  *)
(* of bytes; a code ("0110") is a sequence of the one-character strings    *)
(* "0" and "1"; the bits of the output file are the integers 0 and 1.      *)
(* A HuffmanNode is a record: a leaf [ch |-> c], an interior node          *)
(* [zero |-> t0, one |-> t1], or the null pointer NullTree.                *)
(***************************************************************************)
EXTENDS Integers, Sequences, FiniteSets, TLC

VARIABLES
    pc,           \* position of the running call
    input,        \* compress: the bytes of the input stream
    ipos,         \* compress: bytes of input consumed by the encoding pass
    freqTable,    \* Map<char, int> freqTable
    weights,      \* buildEncodingTree: the PriorityQueue, a set of [node, pri]
    tree,         \* the tree built by buildEncodingTree / given to flatten
    header,       \* the header string written by compress / read by decompress
    binaryMap,    \* Map<char, string> binaryMap
    characterMap, \* decompress: Map<string, char> characterMap
    stream,       \* the bits of the compressed file, in order
    rpos,         \* decompress: bits of stream consumed by readBit
    bits,         \* decompress: the accumulator string `bits`
    out,          \* decompress: the bytes put to the output stream
    parsed,       \* the tree returned by recreateTreeFromHeader
    rest          \* what recreateTreeFromHeaderHelper left of its string

vars == <<pc, input, ipos, freqTable, weights, tree, header, binaryMap,
          characterMap, stream, rpos, bits, out, parsed, rest>>

---------------------------------------------------------------------------
(* Bounds of the model *)

MaxLen == 4         \* longest input given to compress
MaxCount == 3       \* largest count in a frequency table given to buildEncodingTree
MaxCodeLen == 3     \* longest code word of the codes Huffman's code is compared with
MaxLeaves == 3      \* most leaves of a tree given to flattenTreeToHeader
MaxHeaderLen == 6   \* longest string given to recreateTreeFromHeader
MaxBits == 4        \* longest bit stream given to decompress

(* Program constants *)

DOT == 46           \* '.'
LPAREN == 40        \* '('
RPAREN == 41        \* ')'
EOF == -1           \* what readBit returns at the end of the stream

(* The bytes the model draws from: the three structural bytes and 'a'. *)
Symbols == {DOT, LPAREN, RPAREN, 97}

(* The leaf bytes of the headers given to decompress: 'a' and 'b'. *)
DecodeSymbols == {97, 98}

(* decompress is cut off after this many bytes of output (it may never stop). *)
OutCap == (IF MaxLen > MaxBits THEN MaxLen ELSE MaxBits) + 2

---------------------------------------------------------------------------
(* HuffmanNode *)

NullTree == [null |-> TRUE]
Leaf(c) == [ch |-> c]
Node(z, o) == [zero |-> z, one |-> o]
isNull(t) == "null" \in DOMAIN t
isLeaf(t) == "ch" \in DOMAIN t

(* Strings of the library *)

EmptyMap == << >>
Put(map, k, v) == [x \in (DOMAIN map) \cup {k} |-> IF x = k THEN v ELSE map[x]]
charToString(c) == <<c>>
Digits == <<"0", "1", "2", "3", "4", "5", "6", "7", "8", "9">>
integerToString(n) == Digits[n + 1]                           \* n in 0..9
charToInteger(c) == (CHOOSE d \in 0..9 : Digits[d + 1] = c)   \* c - '0'
startsWith(str, c) == Len(str) > 0 /\ str[1] = c
substrThrows(str, pos) == pos > Len(str)
substr(str, pos) == SubSeq(str, pos + 1, Len(str))

(* All sequences over S of length at most n *)
SeqsUpTo(S, n) == UNION {[1..k -> S] : k \in 0..n}

---------------------------------------------------------------------------
(* buildFrequencyTable: one count per byte read *)

RECURSIVE buildFrequencyTableFrom(_, _)
buildFrequencyTableFrom(str, table) ==
    IF str = << >> THEN table
    ELSE buildFrequencyTableFrom(
             Tail(str),
             Put(table, Head(str),
                 IF Head(str) \in DOMAIN table THEN table[Head(str)] + 1 ELSE 1))

buildFrequencyTable(str) == buildFrequencyTableFrom(str, EmptyMap)

---------------------------------------------------------------------------
(* buildEncodingTree *)

(* The entries dequeue may return: those of least priority.  The queue's   *)
(* order among entries of equal priority is left open.                     *)
peekEntriesAny(q) == q
peekEntries(q) == {e \in q : \A f \in q : e.pri <= f.pri}

newPriorityFirst(first, second) == first
newPriority(first, second) == first + second

EnqueueLeaves ==
    /\ pc = "tree_start"
    /\ weights' = {[node |-> Leaf(c), pri |-> freqTable[c]] : c \in DOMAIN freqTable}
    /\ pc' = "tree_loop"
    /\ UNCHANGED <<input, ipos, freqTable, tree, header, binaryMap, characterMap,
                   stream, rpos, bits, out, parsed, rest>>

(* One pass of the loop body, the queue holding at least two nodes. *)
MergeStep ==
    /\ pc = "tree_loop"
    /\ Cardinality(weights) >= 2
    /\ \E e1 \in peekEntries(weights) :
         \E e2 \in peekEntries(weights \ {e1}) :
            weights' = (weights \ {e1, e2}) \cup
                       {[node |-> Node(e1.node, e2.node),
                         pri |-> newPriority(e1.pri, e2.pri)]}
    /\ UNCHANGED <<pc, input, ipos, freqTable, tree, header, binaryMap,
                   characterMap, stream, rpos, bits, out, parsed, rest>>

(* The loop entered with an empty queue: size() != 1 holds and             *)
(* peekPriority() on the empty queue raises the library's error.           *)
MergeOnEmpty ==
    /\ pc = "tree_loop"
    /\ weights = {}
    /\ pc' = "threw"
    /\ UNCHANGED <<input, ipos, freqTable, weights, tree, header, binaryMap,
                   characterMap, stream, rpos, bits, out, parsed, rest>>

ReturnRoot ==
    /\ pc = "tree_loop"
    /\ Cardinality(weights) = 1
    /\ \E e \in weights : tree' = e.node
    /\ weights' = {}
    /\ pc' = "tree_done"
    /\ UNCHANGED <<input, ipos, freqTable, header, binaryMap, characterMap,
                   stream, rpos, bits, out, parsed, rest>>

---------------------------------------------------------------------------
(* buildEncodingMap and gatherLeaves *)

zeroCode(code) == code \o <<integerToString(0)>>
oneCodeAsZero(code) == code \o <<integerToString(0)>>
oneCode(code) == code \o <<integerToString(1)>>

RECURSIVE gatherLeaves(_, _, _)
gatherLeaves(t, map, code) ==
    IF isNull(t) THEN map
    ELSE IF isLeaf(t) THEN Put(map, t.ch, code)
    ELSE gatherLeaves(t.one, gatherLeaves(t.zero, map, zeroCode(code)), oneCode(code))

buildEncodingMap(encodingTree) == gatherLeaves(encodingTree, EmptyMap, << >>)

BuildEncodingMapCall ==
    /\ pc = "tree_done"
    /\ binaryMap' = buildEncodingMap(tree)
    /\ pc' = "mapped"
    /\ UNCHANGED <<input, ipos, freqTable, weights, tree, header, characterMap,
                   stream, rpos, bits, out, parsed, rest>>

---------------------------------------------------------------------------
(* flattenTreeToHeader *)

RECURSIVE flattenTreeToHeader(_)
flattenTreeToHeader(t) ==
    IF isNull(t) THEN << >>
    ELSE IF isLeaf(t) THEN <<DOT>> \o charToString(t.ch)
    ELSE <<LPAREN>> \o flattenTreeToHeader(t.zero) \o flattenTreeToHeader(t.one)
                    \o <<RPAREN>>

---------------------------------------------------------------------------
(* recreateTreeFromHeader and its helper.  The helper's result is          *)
(* [threw, tree, str]: whether a substr past the end of the string threw   *)
(* std::out_of_range, the node built, and what is left of the string.      *)

Threw == [threw |-> TRUE, tree |-> NullTree, str |-> << >>]

(* str[1] of the C++ string, the byte after the '.' *)
leafCharOfDot(str) == str[1]
leafChar(str) == str[2]

RECURSIVE recreateTreeFromHeaderHelper(_)
recreateTreeFromHeaderHelper(str) ==
    IF startsWith(str, DOT)
    THEN IF substrThrows(str, 2) THEN Threw
         ELSE [threw |-> FALSE, tree |-> Leaf(leafChar(str)), str |-> substr(str, 2)]
    ELSE IF substrThrows(str, 1) THEN Threw
         ELSE LET zero == recreateTreeFromHeaderHelper(substr(str, 1))
              IN  IF zero.threw THEN Threw
                  ELSE LET one == recreateTreeFromHeaderHelper(zero.str)
                       IN  IF one.threw THEN Threw
                           ELSE IF substrThrows(one.str, 1) THEN Threw
                           ELSE [threw |-> FALSE,
                                 tree |-> Node(zero.tree, one.tree),
                                 str |-> substr(one.str, 1)]

recreateTreeFromHeader(str) == recreateTreeFromHeaderHelper(str)

---------------------------------------------------------------------------
(* compress *)

CompressStart ==
    /\ pc = "compress"
    /\ freqTable' = buildFrequencyTable(input)
    /\ pc' = "tree_start"
    /\ UNCHANGED <<input, ipos, weights, tree, header, binaryMap, characterMap,
                   stream, rpos, bits, out, parsed, rest>>

(* buildEncodingTree has returned: the header and the map are made, the    *)
(* header is written and the input rewound.                                *)
CompressWriteHeader ==
    /\ pc = "tree_done"
    /\ header' = flattenTreeToHeader(tree)
    /\ binaryMap' = buildEncodingMap(tree)
    /\ ipos' = 0
    /\ pc' = "encode"
    /\ UNCHANGED <<input, freqTable, weights, tree, characterMap, stream, rpos,
                   bits, out, parsed, rest>>

(* The bits written for one code *)
writeBits(code) == [i \in 1..Len(code) |-> charToInteger(code[i])]

EncodeChar ==
    /\ pc = "encode"
    /\ ipos < Len(input)
    /\ stream' = stream \o writeBits(binaryMap[input[ipos + 1]])
    /\ ipos' = ipos + 1
    /\ UNCHANGED <<pc, input, freqTable, weights, tree, header, binaryMap,
                   characterMap, rpos, bits, out, parsed, rest>>

(* The input is exhausted and compress returns; decompress is then run on  *)
(* the header and the bits it wrote.                                       *)
CompressReturn ==
    /\ pc = "encode"
    /\ ipos = Len(input)
    /\ pc' = "decompress"
    /\ UNCHANGED <<input, ipos, freqTable, weights, tree, header, binaryMap,
                   characterMap, stream, rpos, bits, out, parsed, rest>>

---------------------------------------------------------------------------
(* decompress *)

(* characterMap[binaryMap[ch]] = ch for every ch of binaryMap in ascending *)
(* order: a later ch replaces an earlier one with the same code.           *)
RECURSIVE invertFrom(_, _, _)
invertFrom(map, chars, acc) ==
    IF chars = {} THEN acc
    ELSE LET c == CHOOSE x \in chars : \A y \in chars : x <= y
         IN  invertFrom(map, chars \ {c}, Put(acc, map[c], c))

invert(map) == invertFrom(map, DOMAIN map, EmptyMap)

readBit == IF rpos < Len(stream) THEN stream[rpos + 1] ELSE EOF

(* The header is read and parsed, the two maps are built.  An exception    *)
(* of the parse leaves decompress.                                         *)
DecompressSetup ==
    /\ pc = "decompress"
    /\ LET r == recreateTreeFromHeader(header)
       IN  IF r.threw
           THEN /\ pc' = "threw"
                /\ UNCHANGED <<parsed, rest, binaryMap, characterMap>>
           ELSE /\ pc' = "decode"
                /\ parsed' = r.tree
                /\ rest' = r.str
                /\ binaryMap' = buildEncodingMap(r.tree)
                /\ characterMap' = invert(buildEncodingMap(r.tree))
    /\ bits' = << >>
    /\ UNCHANGED <<input, ipos, freqTable, weights, tree, header, stream, rpos, out>>

(* The inner loop: bits is no key of characterMap and a bit is read. *)
DecodeReadBit ==
    /\ pc = "decode"
    /\ bits \notin DOMAIN characterMap
    /\ readBit # EOF
    /\ bits' = bits \o <<integerToString(readBit)>>
    /\ rpos' = rpos + 1
    /\ UNCHANGED <<pc, input, ipos, freqTable, weights, tree, header, binaryMap,
                   characterMap, stream, out, parsed, rest>>

(* The inner loop: readBit returns EOF and decompress returns. *)
DecodeEOF ==
    /\ pc = "decode"
    /\ bits \notin DOMAIN characterMap
    /\ readBit = EOF
    /\ pc' = "returned"
    /\ UNCHANGED <<input, ipos, freqTable, weights, tree, header, binaryMap,
                   characterMap, stream, rpos, bits, out, parsed, rest>>

(* bits is a key of characterMap: its byte is put and bits starts empty. *)
DecodeEmit ==
    /\ pc = "decode"
    /\ bits \in DOMAIN characterMap
    /\ Len(out) < OutCap
    /\ out' = Append(out, characterMap[bits])
    /\ bits' = << >>
    /\ UNCHANGED <<pc, input, ipos, freqTable, weights, tree, header, binaryMap,
                   characterMap, stream, rpos, parsed, rest>>

---------------------------------------------------------------------------
(* Calls of flattenTreeToHeader and recreateTreeFromHeader on their own *)

FlattenCall ==
    /\ pc = "flatten"
    /\ header' = flattenTreeToHeader(tree)
    /\ pc' = "recreate"
    /\ UNCHANGED <<input, ipos, freqTable, weights, tree, binaryMap, characterMap,
                   stream, rpos, bits, out, parsed, rest>>

RecreateCall ==
    /\ pc = "recreate"
    /\ LET r == recreateTreeFromHeader(header)
       IN  IF r.threw
           THEN /\ pc' = "threw"
                /\ UNCHANGED <<parsed, rest>>
           ELSE /\ pc' = "recreated"
                /\ parsed' = r.tree
                /\ rest' = r.str
    /\ UNCHANGED <<input, ipos, freqTable, weights, tree, header, binaryMap,
                   characterMap, stream, rpos, bits, out>>

---------------------------------------------------------------------------
(* Specification of buildEncodingTree followed by buildEncodingMap, on     *)
(* every frequency table over Symbols with counts 1..MaxCount.  The        *)
(* program runs on: a step that is possible is eventually taken.           *)

FrequencyTables == UNION {[D -> 1..MaxCount] : D \in SUBSET Symbols}

InitTree ==
    /\ pc = "tree_start"
    /\ freqTable \in FrequencyTables
    /\ input = << >> /\ ipos = 0
    /\ weights = {} /\ tree = NullTree /\ header = << >>
    /\ binaryMap = EmptyMap /\ characterMap = EmptyMap
    /\ stream = << >> /\ rpos = 0 /\ bits = << >> /\ out = << >>
    /\ parsed = NullTree /\ rest = << >>

NextTree == EnqueueLeaves \/ MergeStep \/ MergeOnEmpty \/ ReturnRoot \/ BuildEncodingMapCall

SpecTree == InitTree /\ [][NextTree]_vars /\ WF_vars(NextTree)

---------------------------------------------------------------------------
(* Specification of compress on every input over Symbols of at most MaxLen *)
(* bytes, followed by decompress on what compress wrote.                   *)

Init ==
    /\ pc = "compress"
    /\ input \in SeqsUpTo(Symbols, MaxLen)
    /\ ipos = 0 /\ freqTable = EmptyMap
    /\ weights = {} /\ tree = NullTree /\ header = << >>
    /\ binaryMap = EmptyMap /\ characterMap = EmptyMap
    /\ stream = << >> /\ rpos = 0 /\ bits = << >> /\ out = << >>
    /\ parsed = NullTree /\ rest = << >>

Next ==
    \/ CompressStart \/ EnqueueLeaves \/ MergeStep \/ MergeOnEmpty \/ ReturnRoot
    \/ CompressWriteHeader \/ EncodeChar \/ CompressReturn
    \/ DecompressSetup \/ DecodeReadBit \/ DecodeEOF \/ DecodeEmit

Spec == Init /\ [][Next]_vars

---------------------------------------------------------------------------
(* Specification of flattenTreeToHeader followed by recreateTreeFromHeader *)
(* on every strictly binary tree of at most MaxLeaves leaves over Symbols, *)
(* and of recreateTreeFromHeader on every string over Symbols of at most   *)
(* MaxHeaderLen bytes.                                                     *)

RECURSIVE TreesWithLeaves(_, _)
TreesWithLeaves(S, n) ==
    IF n = 1 THEN {Leaf(c) : c \in S}
    ELSE UNION {{Node(a, b) : a \in TreesWithLeaves(S, k),
                              b \in TreesWithLeaves(S, n - k)} : k \in 1..(n - 1)}

ValidTrees(S, n) == UNION {TreesWithLeaves(S, k) : k \in 1..n}

InitHeader ==
    /\ \/ /\ pc = "flatten"
          /\ tree \in ValidTrees(Symbols, MaxLeaves)
          /\ header = << >>
       \/ /\ pc = "recreate"
          /\ tree = NullTree
          /\ header \in SeqsUpTo(Symbols, MaxHeaderLen)
    /\ input = << >> /\ ipos = 0 /\ freqTable = EmptyMap /\ weights = {}
    /\ binaryMap = EmptyMap /\ characterMap = EmptyMap
    /\ stream = << >> /\ rpos = 0 /\ bits = << >> /\ out = << >>
    /\ parsed = NullTree /\ rest = << >>

NextHeader == FlattenCall \/ RecreateCall

SpecHeader == InitHeader /\ [][NextHeader]_vars

---------------------------------------------------------------------------
(* Specification of decompress on the header of every strictly binary tree *)
(* of at most MaxLeaves leaves over DecodeSymbols (a single leaf included) *)
(* and every bit stream of at most MaxBits bits.                           *)

InitDecode ==
    /\ pc = "decompress"
    /\ header \in {flattenTreeToHeader(t) : t \in ValidTrees(DecodeSymbols, MaxLeaves)}
    /\ stream \in SeqsUpTo({0, 1}, MaxBits)
    /\ input = << >> /\ ipos = 0 /\ freqTable = EmptyMap /\ weights = {}
    /\ tree = NullTree /\ binaryMap = EmptyMap /\ characterMap = EmptyMap
    /\ rpos = 0 /\ bits = << >> /\ out = << >>
    /\ parsed = NullTree /\ rest = << >>

NextDecode == DecompressSetup \/ DecodeReadBit \/ DecodeEOF \/ DecodeEmit

SpecDecode == InitDecode /\ [][NextDecode]_vars

---------------------------------------------------------------------------
(* What the claims about the tree and the code speak of *)

IsPrefix(a, b) == Len(a) <= Len(b) /\ SubSeq(b, 1, Len(a)) = a

PrefixFree(map) ==
    \A a \in DOMAIN map : \A b \in DOMAIN map :
        a # b => ~IsPrefix(map[a], map[b])

RECURSIVE leafSeq(_)
leafSeq(t) ==
    IF isNull(t) THEN << >>
    ELSE IF isLeaf(t) THEN <<t.ch>>
    ELSE leafSeq(t.zero) \o leafSeq(t.one)

RECURSIVE StrictlyBinary(_)
StrictlyBinary(t) ==
    IF isNull(t) THEN FALSE
    ELSE IF isLeaf(t) THEN TRUE
    ELSE StrictlyBinary(t.zero) /\ StrictlyBinary(t.one)

Range(f) == {f[x] : x \in DOMAIN f}
NoDuplicates(seq) == Cardinality(Range(seq)) = Len(seq)

RECURSIVE SumPri(_)
SumPri(q) ==
    IF q = {} THEN 0
    ELSE LET e == CHOOSE x \in q : TRUE IN e.pri + SumPri(q \ {e})

RECURSIVE SumOver(_, _)
SumOver(f, D) ==
    IF D = {} THEN 0
    ELSE LET x == CHOOSE y \in D : TRUE IN f[x] + SumOver(f, D \ {x})

SumCounts(table) == SumOver(table, DOMAIN table)

(* The number of bits the table's input takes with code words of these lengths. *)
RECURSIVE CostOver(_, _, _)
CostOver(table, lengths, D) ==
    IF D = {} THEN 0
    ELSE LET x == CHOOSE y \in D : TRUE
         IN  table[x] * lengths[x] + CostOver(table, lengths, D \ {x})

Cost(table, lengths) == CostOver(table, lengths, DOMAIN table)

Comparable(a, b) == IsPrefix(a, b) \/ IsPrefix(b, a)

(* Whether code words of the given lengths can be chosen for the symbols   *)
(* of D so that none is a prefix of another or of a word of `chosen`.      *)
RECURSIVE CodeExists(_, _, _)
CodeExists(D, lengths, chosen) ==
    IF D = {} THEN TRUE
    ELSE LET s == CHOOSE x \in D : TRUE
         IN  \E c \in [1..lengths[s] -> {"0", "1"}] :
                /\ \A k \in chosen : ~Comparable(c, k)
                /\ CodeExists(D \ {s}, lengths, chosen \cup {c})

(* The code word lengths (at most MaxCodeLen) of every prefix-free code    *)
(* for the symbols D: the cost of a code depends on its lengths alone.     *)
PrefixFreeLengthsTable ==
    {<<D, {l : l \in {x \in [D -> 0..MaxCodeLen] : CodeExists(D, x, {})}}>> :
        D \in SUBSET Symbols}

PrefixFreeLengths(D) == (CHOOSE p \in PrefixFreeLengthsTable : p[1] = D)[2]

NonEmptyTable == DOMAIN freqTable # {}

---------------------------------------------------------------------------
(* C3: on a non-empty frequency table the map built from the tree of       *)
(* buildEncodingTree has one code per symbol of the table and is           *)
(* prefix-free: no symbol's code is a prefix of (or equal to) another's.   *)
C3_PrefixFree ==
    (pc = "mapped" /\ NonEmptyTable) =>
        /\ DOMAIN binaryMap = DOMAIN freqTable
        /\ PrefixFree(binaryMap)

C3_Witness == pc = "mapped" /\ Cardinality(DOMAIN binaryMap) >= 3

(* C4: with exactly one symbol in the table, the symbol's code has at      *)
(* least one bit.                                                          *)
C4_SingleSymbolCode ==
    (pc = "mapped" /\ Cardinality(DOMAIN freqTable) = 1) =>
        \A s \in DOMAIN binaryMap : Len(binaryMap[s]) >= 1

(* C8: with two symbols or more, the code built costs no more bits than    *)
(* any prefix-free code for the same symbols, whichever of the entries of  *)
(* equal priority the queue returned.                                      *)
C8_Optimal ==
    (pc = "mapped" /\ Cardinality(DOMAIN freqTable) >= 2) =>
        LET built == Cost(freqTable, [s \in DOMAIN freqTable |-> Len(binaryMap[s])])
        IN  \A lengths \in PrefixFreeLengths(DOMAIN freqTable) :
                built <= Cost(freqTable, lengths)

(* a table with a tie among three entries after the first merge *)
C8_Witness ==
    /\ pc = "mapped"
    /\ Cardinality(DOMAIN freqTable) = 4
    /\ \E s \in DOMAIN freqTable : Len(binaryMap[s]) = 3
    /\ \E s \in DOMAIN freqTable : freqTable[s] = 2
    /\ \E lengths \in PrefixFreeLengths(DOMAIN freqTable) :
          Cost(freqTable, [s \in DOMAIN freqTable |-> Len(binaryMap[s])])
              < Cost(freqTable, lengths)

(* C9: on a non-empty table the merge loop never finds the queue empty,    *)
(* keeps the sum of the queue's priorities equal to the sum of the counts, *)
(* shrinks the queue by one node per pass, leaves the loop with exactly    *)
(* one node queued, and returns a strictly binary tree whose leaves are    *)
(* the table's symbols, each once; and the loop is left eventually.        *)
C9_Inv ==
    NonEmptyTable =>
        /\ pc # "threw"
        /\ pc = "tree_loop" =>
              /\ Cardinality(weights) >= 1
              /\ SumPri(weights) = SumCounts(freqTable)
              /\ \A e \in weights : StrictlyBinary(e.node)
        /\ pc \in {"tree_done", "mapped"} =>
              /\ StrictlyBinary(tree)
              /\ NoDuplicates(leafSeq(tree))
              /\ Range(leafSeq(tree)) = DOMAIN freqTable

C9_Step ==
    /\ (pc = "tree_loop" /\ pc' = "tree_loop") =>
           Cardinality(weights') = Cardinality(weights) - 1
    /\ (pc = "tree_loop" /\ pc' = "tree_done") =>
           Cardinality(weights) = 1

C9_MergeLoop ==
    /\ []C9_Inv
    /\ [][C9_Step]_vars
    /\ (pc = "tree_start" /\ NonEmptyTable) ~> (pc = "tree_done")

C9_Witness ==
    pc = "tree_done" /\ Cardinality(DOMAIN freqTable) = 4 /\ isLeaf(tree.zero)

---------------------------------------------------------------------------
(* The header grammar  Tree := '.' byte | '(' Tree Tree ')' :              *)
(* the length of the prefix of str that is a Tree, or -1 if there is none. *)
RECURSIVE GrammarTreeLen(_)
GrammarTreeLen(str) ==
    IF Len(str) >= 2 /\ str[1] = DOT THEN 2
    ELSE IF Len(str) >= 1 /\ str[1] = LPAREN
    THEN LET a == GrammarTreeLen(SubSeq(str, 2, Len(str)))
         IN  IF a < 0 THEN -1
             ELSE LET b == GrammarTreeLen(SubSeq(str, 2 + a, Len(str)))
                  IN  IF b < 0 THEN -1
                      ELSE IF Len(str) >= a + b + 2 /\ str[a + b + 2] = RPAREN
                      THEN a + b + 2
                      ELSE -1
    ELSE -1

MatchesGrammar(str) == GrammarTreeLen(str) = Len(str)

(* C1: compress does not fail, decompress never puts anything but the      *)
(* bytes of the input in their order, and when it returns it has put the   *)
(* whole input.                                                            *)
C1_RoundTrip ==
    /\ pc # "threw"
    /\ pc \in {"decode", "returned"} => IsPrefix(out, input)
    /\ pc = "returned" => out = input

(* C2: a strictly binary tree that is flattened and recreated comes back   *)
(* the same, leaf for leaf, the leaves '.', '(' and ')' included; the      *)
(* parse does not throw and leaves nothing of the header.                  *)
C2_HeaderRoundTrip ==
    ~isNull(tree) =>
        /\ pc # "threw"
        /\ pc = "recreated" => (parsed = tree /\ rest = << >>)

C2_Witness ==
    /\ pc = "recreated"
    /\ tree = Node(Leaf(LPAREN), Node(Leaf(RPAREN), Leaf(DOT)))
    /\ parsed = tree

(* C5: recreateTreeFromHeader returns no tree for a string that does not   *)
(* match the header grammar.                                               *)
C5_MalformedRejected ==
    (isNull(tree) /\ pc = "recreated") => MatchesGrammar(header)

(* C6: decompress does not return normally when the end of the stream is   *)
(* met with bits in the accumulator.                                       *)
C6_CorruptStream == ~(pc = "returned" /\ bits # << >>)

(* C7: compress of a zero-length input does not call buildEncodingTree on  *)
(* the empty table, and so never enters the merge loop with an empty       *)
(* queue.                                                                  *)
C7_EmptyInput ==
    Len(input) = 0 => pc \notin {"tree_start", "tree_loop"}

(* C10: decompress reads at least one bit for each byte it puts, so the    *)
(* bytes put are never more than the bits read, which are never more than  *)
(* the bits of the stream.                                                 *)
C10_DecodeBounded ==
    pc \in {"decode", "returned"} => (Len(out) <= rpos /\ rpos <= Len(stream))

============================================================================
